---------------------------- MODULE Spec2Model ----------------------------
(***************************************************************************)
(* trailing_cell: TcWriter<M> / TcReader<T,M> over a bus::Bus<M>.          *)
(*                                                                         *)
(* Writer threads share one Arc<Mutex<Bus<M>>>; every TcWriter method      *)
(* locks the mutex for the whole call (the guard is a temporary of the     *)
(* call expression), so a blocking broadcast parks while holding it.       *)
(* Each TcReader owns a BusReader (its cursor `head`) and a local T.       *)
(* The Bus is the ring of the bus crate: Bus::new(cap) has cap+1 seats,    *)
(* one of which is always kept free as the fence between tail and head.    *)
(* T is Vec<u32> and M is Change (Push(x) | Pop), as in the tests.         *)
(***************************************************************************)
EXTENDS Integers, Sequences, FiniteSets

\* ------------------------------------------------------------ bounds
\* capacity passed to TcWriter::new
Cap == 2
\* number of apply_change / try_apply_change calls made in a run
MaxPub == 4
\* ... and in a run of FairSpec
FairPub == MaxPub - 1

Writers == {"w1", "w2"}
Readers == {"r1", "r2"}
\* the limits passed to update_limited
Limits == {0, 1, 2}
\* the value add_reader is given for each reader
InitVals(r) == IF r = "r1" THEN {<<8, 9>>} ELSE {<< >>}
\* the publish calls of a run that may carry Pop instead of Push
PopCalls == {2}

NoOne == "none"
\* no call returned in the step
NoReturn ==
    [who |-> "none", op |-> "none", arg |-> [op |-> "None", x |-> 0], lim |-> 0,
     msg |-> [op |-> "None", x |-> 0], val |-> << >>, n |-> 0, parked |-> FALSE]
NoMsg == [op |-> "None", x |-> 0]
Pop == [op |-> "Pop", x |-> 0]
Push(x) == [op |-> "Push", x |-> x]

VARIABLES
    len,       \* Bus.len: the number of seats of the ring
    ring,      \* Bus seats: [val, max, read, seq]; seq is the global sequence number
    tail,      \* Bus write position
    readers,   \* Bus.readers: cursors the bus counts
    rleft,     \* Bus.rleft: per seat, readers that left before reading it
    leaving,   \* channel of heads sent by dropped BusReaders
    mutex,     \* holder of the Mutex<Bus>
    wpc,       \* writer thread: "idle" | "lock" | "bcast"
    wop,       \* the call a writer thread is in
    rst,       \* reader: "unreg" | "live" | "consumed"
    head,      \* BusReader.head
    data,      \* TcReader.data
    rpc,       \* reader thread: "idle" | "update" | "limited" | "fresh" | "into_fresh"
               \*   | "fresh_ret" | "into_fresh_ret" (update() is over, the call has not returned)
    rlim,      \* iterations left of update_limited's for loop
    rcount,    \* update_limited's count
    ev,        \* what the last step returned to its caller, if it was a return
    recording, \* history: whether the run keeps its history (runs without end do not)
    log,       \* history: the messages written to the bus, in order
    init0,     \* history: the value each reader was created with
    regAt,     \* history: Len(log) when add_rx ran / when add_reader was called
    applied,   \* history: sequence numbers each reader applied, in order
    rconc,     \* history: a publish completed while the running reader call was in its loop
    rpend0,    \* history: the messages pending when the running reader call began
    need,      \* history: messages the limits of later update_limited calls must still cover
    pubsLeft   \* publish calls the run may still make

busVars == <<len, ring, tail, readers, rleft, leaving, mutex>>
writerVars == <<wpc, wop, pubsLeft>>
readerVars == <<rst, head, data, rpc, rlim, rcount>>
histVars == <<recording, log, init0, regAt, applied, rconc, rpend0, need>>
vars == <<busVars, writerVars, readerVars, histVars, ev>>

\* ------------------------------------------------------------ pure parts

\* faulty variant: Bus::new without the padding seat
NewLenNoPad(capacity) == capacity

\* Bus::new(capacity): the ring has room for one padding seat
NewLen(capacity) == capacity + 1
Seats == 0 .. (len - 1)

\* faulty variant: take_message that pushes the element twice
TakeMessageTwice(t, m) ==
    IF m.op = "Push" THEN Append(Append(t, m.x), m.x)
    ELSE IF m.op = "Pop" /\ Len(t) > 0 THEN SubSeq(t, 1, Len(t) - 1)
    ELSE t

\* impl TakesMessage<Change> for Vec<u32>
TakeMessage(t, m) ==
    IF m.op = "Push" THEN Append(t, m.x)
    ELSE IF m.op = "Pop" /\ Len(t) > 0 THEN SubSeq(t, 1, Len(t) - 1)
    ELSE t

RECURSIVE FoldMessages(_, _)
FoldMessages(t, ms) ==
    IF ms = << >> THEN t
    ELSE FoldMessages(TakeMessage(t, Head(ms)), Tail(ms))

\* the seat after `at` in the ring
NextSeat(at) == (at + 1) % len

\* seats from h up to, not including, t
RECURSIVE SeatsFrom(_, _)
SeatsFrom(h, t) ==
    IF h = t THEN << >> ELSE <<h>> \o SeatsFrom(NextSeat(h), t)

\* faulty variant: every seat waits for one read even when nobody is registered
ExpectedAtLeastOne(rg, rl, at) ==
    IF rg[at].max - rl[at] > 1 THEN rg[at].max - rl[at] ELSE 1

\* Bus::expected: reads a seat still needs
Expected(rg, rl, at) == rg[at].max - rl[at]

\* faulty variant: broadcast never finds the ring full
FenceAlwaysFree(rg, rl, tl) == TRUE

\* the ring has room when the fence seat has been read by everyone expected
FenceFree(rg, rl, tl) == rg[NextSeat(tl)].read = Expected(rg, rl, NextSeat(tl))

\* one reader left with head `left`: every seat it had not read needs one read less
MarkLeft(rl, left, tl) ==
    [s \in Seats |-> IF \E i \in 1 .. Len(SeatsFrom(left, tl)) : SeatsFrom(left, tl)[i] = s
                     THEN rl[s] + 1 ELSE rl[s]]

\* rleft after the whole leaving channel has been received
RECURSIVE DrainLeft(_, _, _)
DrainLeft(rl, lv, tl) ==
    IF lv = << >> THEN rl
    ELSE DrainLeft(MarkLeft(rl, Head(lv), tl), Tail(lv), tl)

\* the seat a broadcast writes
NewSeat(m, nreaders, sq) == [val |-> m, max |-> nreaders, read |-> 0, seq |-> sq]

\* faulty variant: a new reader starts at the first seat of the ring
AddRxHeadZero(tl) == 0

\* BusReader.head of a new reader
AddRxHead(tl) == tl

\* faulty variant: Seat::take that does not count the read
SeatTakenUncounted(seat) == seat

\* faulty variant: Seat::take that moves the value out at the first read
SeatTakenMoves(seat) == [seat EXCEPT !.read = seat.read + 1, !.val = NoMsg]

\* Seat::take: the last expected reader moves the value out, the others clone it
SeatTaken(seat) ==
    [seat EXCEPT !.read = seat.read + 1,
                 !.val = IF seat.read + 1 = seat.max THEN NoMsg ELSE seat.val]

\* the messages between a reader's cursor and the tail, oldest first
Pending(r) ==
    [i \in 1 .. Len(SeatsFrom(head[r], tail)) |-> ring[SeatsFrom(head[r], tail)[i]].val]

Live(r) == rst[r] = "live"

\* ------------------------------------------------------------ initial state

\* TcWriter::new(capacity), and a run that may make `budget` publish calls
InitOf(capacity, budget, rec) ==
    /\ len = NewLen(capacity)
    /\ recording = rec
    /\ ring = [s \in Seats |-> [val |-> NoMsg, max |-> 0, read |-> 0, seq |-> 0]]
    /\ tail = 0
    /\ readers = 0
    /\ rleft = [s \in Seats |-> 0]
    /\ leaving = << >>
    /\ mutex = NoOne
    /\ wpc = [w \in Writers |-> "idle"]
    /\ wop = [w \in Writers |-> [kind |-> "none", msg |-> NoMsg, rd |-> NoOne, init |-> << >>]]
    /\ rst = [r \in Readers |-> "unreg"]
    /\ head = [r \in Readers |-> 0]
    /\ data = [r \in Readers |-> << >>]
    /\ rpc = [r \in Readers |-> "idle"]
    /\ rlim = [r \in Readers |-> 0]
    /\ rcount = [r \in Readers |-> 0]
    /\ ev = NoReturn
    /\ log = << >>
    /\ init0 = [r \in Readers |-> << >>]
    /\ regAt = [r \in Readers |-> [call |-> 0, rx |-> 0]]
    /\ applied = [r \in Readers |-> << >>]
    /\ rconc = [r \in Readers |-> FALSE]
    /\ rpend0 = [r \in Readers |-> 0]
    /\ need = [r \in Readers |-> 0]
    /\ pubsLeft = budget

InitWith(budget) == InitOf(Cap, budget, TRUE)

Init == InitWith(MaxPub)


\* ------------------------------------------------------------ bus::Bus

\* Bus::broadcast_inner, the write: fill the seat at tail and publish the new tail
WriteSeat(m, nreaders, rl) ==
    /\ ring' = [ring EXCEPT ![tail] = NewSeat(m, nreaders, IF recording THEN Len(log) + 1 ELSE 0)]
    /\ rleft' = [rl EXCEPT ![tail] = 0]
    /\ tail' = NextSeat(tail)
    /\ log' = IF recording THEN Append(log, m) ELSE log
    /\ rconc' = [r \in Readers |-> rconc[r] \/ rpc[r] /= "idle"]
    /\ need' = [r \in Readers |-> IF Live(r) THEN Len(Pending(r)) + 1 ELSE 0]

\* room without looking at the leaving channel
RoomNow == FenceFree(ring, rleft, tail)

\* room once the readers that left are accounted for
RoomAfterDrain == FenceFree(ring, DrainLeft(rleft, leaving, tail), tail)

\* Bus::broadcast_inner, one pass of its loop that ends in the write
BroadcastWrites(m) ==
    \/ /\ RoomNow
       /\ WriteSeat(m, readers, rleft)
       /\ UNCHANGED <<readers, leaving>>
    \/ /\ ~RoomNow
       /\ RoomAfterDrain
       /\ readers' = readers - Len(leaving)
       /\ leaving' = << >>
       /\ WriteSeat(m, readers - Len(leaving), DrainLeft(rleft, leaving, tail))

\* Bus::broadcast_inner, one pass of its loop that finds the ring full
BroadcastFull ==
    /\ ~RoomNow
    /\ ~RoomAfterDrain
    /\ readers' = readers - Len(leaving)
    /\ leaving' = << >>
    /\ rleft' = DrainLeft(rleft, leaving, tail)
    /\ UNCHANGED <<ring, tail, log, rconc, need>>

\* Bus::add_rx
AddRx(r) ==
    /\ readers' = readers + 1
    /\ head' = [head EXCEPT ![r] = AddRxHead(tail)]

\* ------------------------------------------------------------ TcWriter
\* A call that finds the mutex free runs under it at once; one that finds it
\* held waits in lock() ("lock") and runs when the holder has returned.  The
\* mutex is only ever seen held by a writer parked in broadcast ("bcast").

\* a writer call returns
Result(w, k, a, m) ==
    ev' = [NoReturn EXCEPT !.who = w, !.op = k, !.arg = a, !.msg = m,
                           !.parked = (wpc[w] = "bcast")]
Call(k, m, r, i) == [kind |-> k, msg |-> m, rd |-> r, init |-> i]
NoCall == Call("none", NoMsg, NoOne, << >>)

\* the messages a publish call of this run may carry
CallNo == MaxPub - pubsLeft + 1
Msgs == {Push(CallNo)} \cup (IF CallNo \in PopCalls THEN {Pop} ELSE {})

\* apply_change under the mutex: a pass of broadcast's loop; the guard is
\* dropped only when broadcast has returned
ApplyChangeBody(w, m) ==
    /\ \/ /\ BroadcastWrites(m)
          /\ wpc' = [wpc EXCEPT ![w] = "idle"]
          /\ wop' = [wop EXCEPT ![w] = NoCall]
          /\ Result(w, "apply_change", m, NoMsg)
          /\ mutex' = NoOne
       \/ /\ BroadcastFull
          /\ wpc' = [wpc EXCEPT ![w] = "bcast"]
          /\ wop' = [wop EXCEPT ![w] = Call("apply", m, NoOne, << >>)]
          /\ mutex' = w
          /\ ev' = NoReturn
    /\ UNCHANGED <<len, recording, readerVars, init0, regAt, applied, rpend0>>

\* faulty variant: try_apply_change that drops the Err of try_broadcast and answers Ok
TryApplyChangeLoses(w, m) ==
    /\ BroadcastWrites(m) \/ BroadcastFull
    /\ Result(w, "try_ok", m, NoMsg)
    /\ wpc' = [wpc EXCEPT ![w] = "idle"]
    /\ wop' = [wop EXCEPT ![w] = NoCall]
    /\ UNCHANGED <<len, recording, mutex, readerVars, init0, regAt, applied, rpend0>>

\* faulty variant: try_apply_change with the two arms of its if let swapped
TryApplyChangeInverted(w, m) ==
    /\ \/ /\ BroadcastWrites(m)
          /\ Result(w, "try_err", m, m)
       \/ /\ BroadcastFull
          /\ Result(w, "try_ok", m, NoMsg)
    /\ wpc' = [wpc EXCEPT ![w] = "idle"]
    /\ wop' = [wop EXCEPT ![w] = NoCall]
    /\ UNCHANGED <<len, recording, mutex, readerVars, init0, regAt, applied, rpend0>>

\* try_apply_change under the mutex: try_broadcast, Err(m) mapped to Err(m)
TryApplyChangeBody(w, m) ==
    /\ \/ /\ BroadcastWrites(m)
          /\ Result(w, "try_ok", m, NoMsg)
       \/ /\ BroadcastFull
          /\ Result(w, "try_err", m, m)
    /\ wpc' = [wpc EXCEPT ![w] = "idle"]
    /\ wop' = [wop EXCEPT ![w] = NoCall]
    /\ UNCHANGED <<len, recording, mutex, readerVars, init0, regAt, applied, rpend0>>

\* add_reader under the mutex: add_rx, and the reader starts with `i`
AddReaderBody(w, r, i, calledAt) ==
    /\ AddRx(r)
    /\ rst' = [rst EXCEPT ![r] = "live"]
    /\ data' = [data EXCEPT ![r] = i]
    /\ init0' = [init0 EXCEPT ![r] = i]
    /\ regAt' = [regAt EXCEPT ![r] = [call |-> calledAt, rx |-> Len(log)]]
    /\ need' = [need EXCEPT ![r] = 0]
    /\ wpc' = [wpc EXCEPT ![w] = "idle"]
    /\ wop' = [wop EXCEPT ![w] = NoCall]
    /\ Result(w, "add_reader", NoMsg, NoMsg)
    /\ UNCHANGED <<len, recording, ring, tail, rleft, leaving, mutex>>
    /\ UNCHANGED <<rpc, rlim, rcount, log, applied, rconc, rpend0>>

\* the reader a call of add_reader creates: the first one not yet created
FreeReader(r) ==
    /\ rst[r] = "unreg"
    /\ \A w \in Writers : wop[w].rd /= r
    /\ r = "r2" => (rst["r1"] /= "unreg" \/ \E w \in Writers : wop[w].rd = "r1")

\* a call that has to wait for the mutex
WaitForLock(w, c) ==
    /\ wpc[w] = "idle"
    /\ mutex /= NoOne
    /\ wpc' = [wpc EXCEPT ![w] = "lock"]
    /\ wop' = [wop EXCEPT ![w] = c]
    /\ ev' = NoReturn
    /\ UNCHANGED <<busVars, readerVars, recording, log, init0, applied, rconc, rpend0, need>>

\* apply_change(m)
ApplyChange(w, m) ==
    /\ wpc[w] = "idle"
    /\ pubsLeft > 0
    /\ pubsLeft' = IF recording THEN pubsLeft - 1 ELSE pubsLeft
    /\ \/ mutex = NoOne /\ ApplyChangeBody(w, m)
       \/ WaitForLock(w, Call("apply", m, NoOne, << >>)) /\ UNCHANGED regAt

\* try_apply_change(m)
TryApplyChange(w, m) ==
    /\ wpc[w] = "idle"
    /\ pubsLeft > 0
    /\ pubsLeft' = IF recording THEN pubsLeft - 1 ELSE pubsLeft
    /\ \/ mutex = NoOne /\ TryApplyChangeBody(w, m)
       \/ WaitForLock(w, Call("try", m, NoOne, << >>)) /\ UNCHANGED regAt

\* add_reader(i)
AddReader(w, r, i) ==
    /\ wpc[w] = "idle"
    /\ FreeReader(r)
    /\ UNCHANGED pubsLeft
    /\ \/ mutex = NoOne /\ AddReaderBody(w, r, i, Len(log))
       \/ /\ WaitForLock(w, Call("add", NoMsg, r, i))
          /\ regAt' = [regAt EXCEPT ![r].call = Len(log)]

\* lock() returns to a waiting call
LockAcquired(w) ==
    /\ wpc[w] = "lock"
    /\ mutex = NoOne
    /\ UNCHANGED pubsLeft
    /\ \/ wop[w].kind = "apply" /\ ApplyChangeBody(w, wop[w].msg)
       \/ wop[w].kind = "try" /\ TryApplyChangeBody(w, wop[w].msg)
       \/ wop[w].kind = "add" /\ AddReaderBody(w, wop[w].rd, wop[w].init, regAt[wop[w].rd].call)

\* apply_change parked in broadcast wakes up and makes another pass
ApplyChangeRetry(w) ==
    /\ wpc[w] = "bcast"
    /\ mutex = w
    /\ UNCHANGED pubsLeft
    /\ ApplyChangeBody(w, wop[w].msg)

\* ------------------------------------------------------------ TcReader
\* A call that loops over try_recv takes one step per pass; the call itself
\* is its first pass.

Loops == {"update", "limited", "fresh", "into_fresh"}

\* history: the message at the cursor is noted as applied
Noted(r) == IF recording THEN Append(applied[r], ring[head[r]].seq) ELSE applied[r]

\* BusReader::try_recv is Ok: the cursor is behind the tail
CanRecv(r) == head[r] /= tail

\* faulty variant: try_recv that leaves the cursor on the seat it has read
AdvanceStays(h) == h

\* the cursor after one message
Advance(h) == NextSeat(h)

\* faulty variant: the for loop makes one pass too many
LimitReachedLate(left) == left <= 0

\* faulty variant: the for loop stops one pass short
LimitReachedEarly(left) == left <= 2

\* update_limited's for loop is over after a pass with `left` passes to go
LimitReached(left) == left <= 1

\* faulty variant: a reader that goes away without telling the bus
DropConsumerSilent(r) == UNCHANGED leaving

\* Drop for BusReader: tell the bus where this reader stopped
DropConsumer(r) == leaving' = Append(leaving, head[r])

\* the value a call hands back: into_inner_* moves the T out; get_mut_* hands
\* out a reference to data, and update and update_limited no T at all
Returned(k, t) == IF k \in {"into_stale", "into_fresh"} THEN t ELSE << >>

\* what is left of n once m has been taken off it
Minus(n, m) == IF n > m THEN n - m ELSE 0

\* the call returns; `lim` is the limit it was given, `pend` what it leaves pending
Return(r, k, lim, cnt, t, pend) ==
    /\ need' = [need EXCEPT ![r] = IF k = "limited" /\ ~rconc[r]
                                   THEN Minus(need[r], lim) ELSE pend]
    /\ rpc' = [rpc EXCEPT ![r] = "idle"]
    /\ ev' = [NoReturn EXCEPT !.who = r, !.op = k, !.lim = lim, !.val = Returned(k, t), !.n = cnt]
    /\ rcount' = [rcount EXCEPT ![r] = 0]
    /\ rlim' = [rlim EXCEPT ![r] = 0]
    /\ rconc' = [rconc EXCEPT ![r] = FALSE]
    /\ rpend0' = [rpend0 EXCEPT ![r] = 0]

\* into_inner: the T is moved out and the reader, with its cursor, is dropped
Consume(r) ==
    /\ rst' = [rst EXCEPT ![r] = "consumed"]
    /\ DropConsumer(r)
    /\ data' = [data EXCEPT ![r] = << >>]
    /\ head' = [head EXCEPT ![r] = 0]
    /\ applied' = [applied EXCEPT ![r] = << >>]
    /\ init0' = [init0 EXCEPT ![r] = << >>]
    /\ regAt' = [regAt EXCEPT ![r] = [call |-> 0, rx |-> 0]]

\* the messages pending when the call the pass belongs to began
PendingAtCall(r) == IF rpc[r] = "idle" THEN Len(Pending(r)) ELSE rpend0[r]

\* try_recv is Ok(msg): take_message(msg), and the loop goes on or is over
PassApplies(r, k, left, cnt) ==
    /\ CanRecv(r)
    /\ data' = [data EXCEPT ![r] = TakeMessage(data[r], ring[head[r]].val)]
    /\ applied' = [applied EXCEPT ![r] = Noted(r)]
    /\ ring' = [ring EXCEPT ![head[r]] = SeatTaken(ring[head[r]])]
    /\ head' = [head EXCEPT ![r] = Advance(head[r])]
    /\ IF k = "limited" /\ LimitReached(left)
       THEN Return(r, k, cnt + left, cnt + 1, data'[r], Len(Pending(r)) - 1)
       ELSE /\ rpc' = [rpc EXCEPT ![r] = k]
            /\ rlim' = [rlim EXCEPT ![r] = IF k = "limited" THEN left - 1 ELSE 0]
            /\ rcount' = [rcount EXCEPT ![r] = IF k = "limited" THEN cnt + 1 ELSE 0]
            /\ rpend0' = [rpend0 EXCEPT ![r] = PendingAtCall(r)]
            /\ ev' = NoReturn
            /\ UNCHANGED <<rconc, need>>
    /\ UNCHANGED <<rst, leaving, init0, regAt>>

\* faulty variant: recv() for try_recv(): the pass waits until a message is there
PassEmptyBlocks(r, k, left, cnt) == FALSE

\* try_recv is Err: the loop is over
PassEmpty(r, k, left, cnt) ==
    /\ ~CanRecv(r)
    /\ Return(r, k, cnt + left, cnt, data[r], 0)
    /\ IF k = "into_fresh"
       THEN Consume(r)
       ELSE UNCHANGED <<rst, leaving, data, head, applied, init0, regAt>>
    /\ UNCHANGED ring

\* one pass of the loop of update (left = 0) or update_limited (left > 0)
LoopPass(r, k, left, cnt) ==
    /\ PassApplies(r, k, left, cnt) \/ PassEmpty(r, k, left, cnt)
    /\ UNCHANGED <<len, recording, tail, readers, rleft, mutex, writerVars, log>>

Idle(r) == Live(r) /\ rpc[r] = "idle"

\* faulty variant: update() with `if let` for `while let`: one message at most
UpdateOnce(r) ==
    /\ Idle(r)
    /\ \/ /\ CanRecv(r)
          /\ data' = [data EXCEPT ![r] = TakeMessage(data[r], ring[head[r]].val)]
          /\ applied' = [applied EXCEPT ![r] = Noted(r)]
          /\ ring' = [ring EXCEPT ![head[r]] = SeatTaken(ring[head[r]])]
          /\ head' = [head EXCEPT ![r] = Advance(head[r])]
          /\ Return(r, "update", 0, 0, data'[r], Len(Pending(r)) - 1)
          /\ UNCHANGED <<rst, leaving, init0, regAt>>
       \/ PassEmpty(r, "update", 0, 0)
    /\ UNCHANGED <<len, recording, tail, readers, rleft, mutex, writerVars, log>>

\* update()
Update(r) == Idle(r) /\ LoopPass(r, "update", 0, 0)

\* update_limited(limit)
UpdateLimited(r, limit) ==
    /\ Idle(r)
    /\ IF limit = 0
       THEN /\ Return(r, "limited", 0, 0, data[r], Len(Pending(r)))
            /\ UNCHANGED <<busVars, writerVars, recording, log>>
            /\ UNCHANGED <<rst, data, head, applied, init0, regAt>>
       ELSE LoopPass(r, "limited", limit, 0)

\* get_mut_fresh()
GetMutFresh(r) == Idle(r) /\ LoopPass(r, "fresh", 0, 0)

\* into_inner_fresh()
IntoInnerFresh(r) == Idle(r) /\ LoopPass(r, "into_fresh", 0, 0)

\* a later pass of the loop a call is in
NextPass(r) ==
    /\ Live(r)
    /\ rpc[r] \in Loops
    /\ LoopPass(r, rpc[r], rlim[r], rcount[r])

\* faulty variant: get_mut_stale that receives a waiting message first
GetMutStaleSyncs(r) ==
    /\ Idle(r)
    /\ IF CanRecv(r)
       THEN /\ data' = [data EXCEPT ![r] = TakeMessage(data[r], ring[head[r]].val)]
            /\ applied' = [applied EXCEPT ![r] = Noted(r)]
            /\ ring' = [ring EXCEPT ![head[r]] = SeatTaken(ring[head[r]])]
            /\ head' = [head EXCEPT ![r] = Advance(head[r])]
       ELSE UNCHANGED <<data, applied, ring, head>>
    /\ Return(r, "stale", 0, 0, data'[r], Minus(Len(Pending(r)), 1))
    /\ UNCHANGED <<len, recording, tail, readers, rleft, leaving, mutex, writerVars, log, rst, init0, regAt>>

\* get_mut_stale()
GetMutStale(r) ==
    /\ Idle(r)
    /\ Return(r, "stale", 0, 0, data[r], Len(Pending(r)))
    /\ UNCHANGED <<busVars, writerVars, recording, log>>
    /\ UNCHANGED <<rst, data, head, applied, init0, regAt>>

\* into_inner_stale()
IntoInnerStale(r) ==
    /\ Idle(r)
    /\ Return(r, "into_stale", 0, 0, data[r], 0)
    /\ Consume(r)
    /\ UNCHANGED <<len, recording, ring, tail, readers, rleft, mutex, writerVars, log>>

\* get_mut_fresh and into_inner_fresh step by step: self.update() ends with
\* the try_recv that finds nothing, and the call returns in a later step, so
\* that a publish can fall between the two.

RetStates == {"fresh_ret", "into_fresh_ret"}
RetOf(k) == IF k = "fresh" THEN "fresh_ret" ELSE "into_fresh_ret"

\* faulty variant: update() gives up although a message is waiting
PollGivesUp(r, k) ==
    /\ rpc' = [rpc EXCEPT ![r] = RetOf(k)]
    /\ rpend0' = [rpend0 EXCEPT ![r] = PendingAtCall(r)]
    /\ ev' = NoReturn
    /\ UNCHANGED <<ring, rst, leaving, data, head, applied, init0, regAt>>
    /\ UNCHANGED <<rlim, rcount, rconc, need>>

\* try_recv is Err: update() is over, the call has yet to return
PollEmpty(r, k) ==
    /\ ~CanRecv(r)
    /\ rpc' = [rpc EXCEPT ![r] = RetOf(k)]
    /\ rpend0' = [rpend0 EXCEPT ![r] = PendingAtCall(r)]
    /\ ev' = NoReturn
    /\ UNCHANGED <<ring, rst, leaving, data, head, applied, init0, regAt>>
    /\ UNCHANGED <<rlim, rcount, rconc, need>>

\* one pass of the loop of the update() inside get_mut_fresh / into_inner_fresh
FreshPass(r, k) ==
    /\ PassApplies(r, k, 0, 0) \/ PollEmpty(r, k)
    /\ UNCHANGED <<len, recording, tail, readers, rleft, mutex, writerVars, log>>

GetMutFreshCall(r) == Idle(r) /\ FreshPass(r, "fresh")

IntoInnerFreshCall(r) == Idle(r) /\ FreshPass(r, "into_fresh")

FreshNextPass(r) ==
    /\ Live(r)
    /\ rpc[r] \in {"fresh", "into_fresh"}
    /\ FreshPass(r, rpc[r])

\* &mut self.data is handed out / self.data is moved out and self dropped
FreshReturns(r) ==
    /\ Live(r)
    /\ rpc[r] \in RetStates
    /\ IF rpc[r] = "fresh_ret"
       THEN /\ Return(r, "fresh", 0, 0, data[r], Len(Pending(r)))
            /\ UNCHANGED <<rst, leaving, data, head, applied, init0, regAt>>
       ELSE /\ Return(r, "into_fresh", 0, 0, data[r], 0)
            /\ Consume(r)
    /\ UNCHANGED <<len, recording, ring, tail, readers, rleft, mutex, writerVars, log>>

\* The caller writes through the &mut T that get_mut_stale / get_mut_fresh
\* handed out (through DerefMut in the older variant of the tests).

\* the values a caller stores
CallerValues == {<<1, 2, 3>>}

\* faulty variant: storing a value also moves the cursor to the tail
SetValueSkipsPending(r, v) ==
    /\ Idle(r)
    /\ data[r] /= v
    /\ data' = [data EXCEPT ![r] = v]
    /\ head' = [head EXCEPT ![r] = tail]
    /\ init0' = [init0 EXCEPT ![r] = v]
    /\ applied' = [applied EXCEPT ![r] = << >>]
    /\ regAt' = [regAt EXCEPT ![r].rx = regAt[r].rx + Len(applied[r])]
    /\ ev' = [NoReturn EXCEPT !.who = r, !.op = "set"]
    /\ UNCHANGED <<busVars, writerVars, rst, rpc, rlim, rcount>>
    /\ UNCHANGED <<recording, log, rconc, rpend0, need>>

\* *r.get_mut_stale() = v: only the T changes; the history of the reader
\* starts again from v and from the messages it has not consumed
SetValue(r, v) ==
    /\ Idle(r)
    /\ data[r] /= v
    /\ data' = [data EXCEPT ![r] = v]
    /\ init0' = [init0 EXCEPT ![r] = v]
    /\ applied' = [applied EXCEPT ![r] = << >>]
    /\ regAt' = [regAt EXCEPT ![r].rx = regAt[r].rx + Len(applied[r])]
    /\ ev' = [NoReturn EXCEPT !.who = r, !.op = "set"]
    /\ UNCHANGED <<busVars, writerVars, rst, head, rpc, rlim, rcount>>
    /\ UNCHANGED <<recording, log, rconc, rpend0, need>>

\* ------------------------------------------------------------ specification

WriterStep(w) ==
    \/ \E m \in Msgs : ApplyChange(w, m)
    \/ \E m \in Msgs : TryApplyChange(w, m)
    \/ \E r \in Readers : \E i \in InitVals(r) : AddReader(w, r, i)
    \/ LockAcquired(w)
    \/ ApplyChangeRetry(w)

ReaderStep(r) ==
    \/ Update(r)
    \/ \E limit \in Limits : UpdateLimited(r, limit)
    \/ GetMutFresh(r)
    \/ IntoInnerFresh(r)
    \/ NextPass(r)
    \/ GetMutStale(r)
    \/ IntoInnerStale(r)

Next ==
    \/ \E w \in Writers : WriterStep(w)
    \/ \E r \in Readers : ReaderStep(r)

Spec == Init /\ [][Next]_vars

\* Scheduling: a writer thread that can go on does (a waiting lock() returns
\* once the mutex is free, a parked broadcast retries), and so does the loop
\* of a reader call.  Reader r1 is moreover a reader that keeps draining: it
\* calls update() again and again for as long as it exists.  Nothing is
\* assumed of the calls r2 makes.
Fairness ==
    /\ \A w \in Writers : WF_vars(LockAcquired(w)) /\ WF_vars(ApplyChangeRetry(w))
    /\ \A r \in Readers : WF_vars(NextPass(r))
    /\ WF_vars(Update("r1"))

\* the runs checked for liveness make FairPub publish calls
FairInit == InitWith(FairPub)
FairSpec == FairInit /\ [][Next]_vars /\ Fairness

\* Publisher threads that only call try_apply_change, each pushing numbers of
\* its own (the thread's tag plus the number of the call), and readers that
\* only call update().
WriterTag(w) == IF w = "w1" THEN 10 ELSE 20
OwnMsg(w) == Push(WriterTag(w) + CallNo)

TryNext ==
    \/ \E w \in Writers : TryApplyChange(w, OwnMsg(w))
    \/ \E w \in Writers : \E r \in Readers : \E i \in InitVals(r) : AddReader(w, r, i)
    \/ \E r \in Readers : Update(r)
    \/ \E r \in Readers : NextPass(r)

TrySpec == Init /\ [][TryNext]_vars

\* The program with the returns of get_mut_fresh / into_inner_fresh as steps
FreshReaderStep(r) ==
    \/ Update(r)
    \/ \E limit \in Limits : UpdateLimited(r, limit)
    \/ rpc[r] \in {"update", "limited"} /\ NextPass(r)
    \/ GetMutStale(r)
    \/ IntoInnerStale(r)
    \/ GetMutFreshCall(r)
    \/ IntoInnerFreshCall(r)
    \/ FreshNextPass(r)
    \/ FreshReturns(r)

FreshNext ==
    \/ \E w \in Writers : WriterStep(w)
    \/ \E r \in Readers : FreshReaderStep(r)

FreshSpec == FairInit /\ [][FreshNext]_vars

\* Runs without end: the writer threads may publish for ever (Pop, which keeps
\* the values bounded) to one reader, no history is kept, and every thread
\* that can go on with the call it is in does so.
EndlessWriterStep(w) ==
    \/ ApplyChange(w, Pop)
    \/ TryApplyChange(w, Pop)
    \/ AddReader(w, "r1", << >>)
    \/ LockAcquired(w)
    \/ ApplyChangeRetry(w)

EndlessNext ==
    \/ \E w \in Writers : EndlessWriterStep(w)
    \/ ReaderStep("r1")

EndlessFairness ==
    /\ \A w \in Writers : WF_vars(LockAcquired(w)) /\ WF_vars(ApplyChangeRetry(w))
    /\ \A r \in Readers : WF_vars(NextPass(r))

EndlessInit == InitOf(Cap, 1, FALSE)
EndlessSpec == EndlessInit /\ [][EndlessNext]_vars /\ EndlessFairness

\* The program with a caller that stores values through the accessors of the
\* first reader
MutNext ==
    \/ \E w \in Writers : WriterStep(w)
    \/ \E r \in Readers : ReaderStep(r)
    \/ \E v \in CallerValues : SetValue("r1", v)

MutSpec == FairInit /\ [][MutNext]_vars

\* TcWriter::new called with a small capacity, zero included
SmallCaps == {0, 1}
CapInit == \E capacity \in SmallCaps : InitOf(capacity, FairPub, TRUE)
CapSpec == CapInit /\ [][Next]_vars

\* ------------------------------------------------------------ properties

Min(a, b) == IF a < b THEN a ELSE b

\* messages broadcast since r was registered that r has not consumed
Lag(r) == Len(log) - regAt[r].rx - Len(applied[r])

\* the messages r has consumed, in the order it consumed them
AppliedMsgs(r) == [i \in 1 .. Len(applied[r]) |-> log[applied[r][i]]]

\* the messages broadcast since r was registered
SinceRegistered(r, lg) == SubSeq(lg, regAt[r].rx + 1, Len(lg))

\* some registered reader has a full buffer of unread messages
Full == \E r \in Readers : Live(r) /\ Lag(r) >= Cap

\* the step returns from call k of reader r
Returns(r, k) == ev'.who = r /\ ev'.op = k

\* C1, state part: the local value of every reader is its initial value with
\* the messages its cursor has consumed applied by take_message, each once and
\* in the order of their sequence numbers.
C1_ValueIsFoldOfConsumed ==
    \A r \in Readers : Live(r) =>
        /\ data[r] = FoldMessages(init0[r], AppliedMsgs(r))
        /\ \A i, j \in 1 .. Len(applied[r]) : i < j => applied[r][i] < applied[r][j]

\* C1, at the returns: into_inner_* hands out that value, and when update
\* (alone or inside get_mut_fresh / into_inner_fresh) returns, the value is the
\* initial value folded over every message broadcast since the registration.
C1_ObservedAtReturn ==
    \A r \in Readers :
        /\ Returns(r, "into_stale") => ev'.val = FoldMessages(init0[r], AppliedMsgs(r))
        /\ Returns(r, "into_fresh") =>
               ev'.val = FoldMessages(init0[r], SinceRegistered(r, log))
        /\ (Returns(r, "update") \/ Returns(r, "fresh")) =>
               data'[r] = FoldMessages(init0[r], SinceRegistered(r, log'))

\* C1: at every observation point the local value of a reader is its initial
\* value with every consumed message applied in sequence order exactly once,
\* and after a full update() it is the initial value folded over all the
\* messages published since the reader was registered.
C1_ReplicaIsFold == [](C1_ValueIsFoldOfConsumed) /\ [][C1_ObservedAtReturn]_vars

C1_Witness ==
    \E r \in Readers :
        /\ Live(r) /\ ev.who = r /\ ev.op = "update"
        /\ regAt[r].rx = 0 /\ Len(applied[r]) = 3
        /\ log[2] = Pop /\ data[r] = <<8, 9, 3>>

\* C2: a reader created by add_reader never applies a message whose publish
\* completed before the add_reader call, and its cursor starts at the tail.
C2_NothingBeforeRegistration ==
    \A r \in Readers : Live(r) =>
        /\ regAt[r].call <= regAt[r].rx
        /\ \A i \in 1 .. Len(applied[r]) : applied[r][i] > regAt[r].call
        /\ (Len(log) = regAt[r].rx) => head[r] = tail

C2_Witness ==
    \E r \in Readers :
        /\ Live(r) /\ regAt[r].call >= 2 /\ Len(applied[r]) >= 1
        /\ data[r] = FoldMessages(init0[r], <<log[regAt[r].rx + 1]>>)

\* C3: every reader consumes exactly the messages sequenced after its
\* registration, consecutively (none skipped, none twice), so any two readers
\* apply the messages they both consume in the same relative order, however
\* the publishers and the readers interleave.
C3_SameGlobalOrder ==
    /\ \A r \in Readers : Live(r) =>
           \A i \in 1 .. Len(applied[r]) : applied[r][i] = regAt[r].rx + i
    /\ \A r1, r2 \in Readers : (Live(r1) /\ Live(r2)) =>
           \A i, j \in 1 .. Len(applied[r1]) : \A k, l \in 1 .. Len(applied[r2]) :
               (i < j /\ applied[r1][i] = applied[r2][k] /\ applied[r1][j] = applied[r2][l])
                   => k < l
    /\ \A r \in Readers : Live(r) =>
           \A i \in 1 .. Len(SeatsFrom(head[r], tail)) :
               ring[SeatsFrom(head[r], tail)[i]].seq = regAt[r].rx + Len(applied[r]) + i

C3_Witness ==
    /\ Live("r1") /\ Live("r2")
    /\ Len(applied["r1"]) >= 3 /\ Len(applied["r2"]) >= 2
    /\ regAt["r2"].rx > regAt["r1"].rx
    /\ Len(log) > Cap + 1

\* C4: get_mut_stale and into_inner_stale apply nothing: the local value and
\* the cursor are left as they were (into_inner_stale hands the value out as
\* it stood), and while a reader makes no call of its own neither publishes
\* nor other readers change its value or its cursor.
C4_StaleStep ==
    \A r \in Readers :
        /\ Returns(r, "stale") =>
               /\ data'[r] = data[r] /\ head'[r] = head[r]
               /\ applied'[r] = applied[r] /\ ring' = ring
        /\ Returns(r, "into_stale") =>
               /\ ev'.val = data[r] /\ ring' = ring
               /\ leaving' = Append(leaving, head[r])
        /\ (Idle(r) /\ Idle(r)' /\ ev'.who /= r) =>
               data'[r] = data[r] /\ head'[r] = head[r]

C4_StaleAppliesNothing == [][C4_StaleStep]_vars

C4_Witness ==
    \E r \in Readers :
        /\ Live(r) /\ ev.who = r /\ ev.op = "stale"
        /\ Lag(r) = Cap /\ data[r] = init0[r]

\* C5: a registered reader is never more than Cap messages behind, so with a
\* reader that never updates the (Cap+1)-th apply_change cannot complete before
\* that reader consumes; and apply_change parks only when some registered
\* reader is Cap messages behind, so the first Cap calls complete.
C5_ParksOnlyWhenFull ==
    \A w \in Writers :
        /\ (wpc[w] /= "bcast" /\ wpc'[w] = "bcast") => Full
        /\ Returns(w, "apply_change") => ~Full

C5_BlockingBackpressure ==
    /\ [](\A r \in Readers : Live(r) => Lag(r) <= Cap)
    /\ [][C5_ParksOnlyWhenFull]_vars

C5_Witness ==
    \E w \in Writers, r \in Readers :
        /\ wpc[w] = "bcast" /\ mutex = w
        /\ Live(r) /\ regAt[r].rx = 0 /\ applied[r] = << >> /\ Len(log) = Cap

\* the message the call that returns in this step was given
GivenMsg(w) == IF wpc[w] \in {"lock", "bcast"} THEN {wop[w].msg} ELSE Msgs

\* C6: try_apply_change succeeds exactly when no registered reader is Cap
\* messages behind; otherwise it returns Err with the message it was given and
\* leaves the buffer and every reader's pending messages as they were.
C6_TryStep ==
    \A w \in Writers :
        /\ Returns(w, "try_ok") => ~Full
        /\ Returns(w, "try_err") =>
               /\ Full
               /\ ev'.msg = ev'.arg /\ ev'.arg \in GivenMsg(w)
               /\ ring' = ring /\ tail' = tail
               /\ \A r \in Readers : Live(r) => Pending(r)' = Pending(r)

C6_TryBackpressure == [][C6_TryStep]_vars

C6_Witness ==
    \E w \in Writers, r \in Readers :
        /\ ev.who = w /\ ev.op = "try_err" /\ ev.msg = Push(Cap + 1)
        /\ Live(r) /\ applied[r] = << >> /\ Len(log) = Cap /\ Len(Pending(r)) = Cap

\* C7: a publish call that returns has either appended its message to the
\* global sequence, where it is pending for every registered reader, or handed
\* it back as Err(message), never both and never neither; and nothing else
\* extends the sequence.
C7_PublishStep ==
    /\ \A w \in Writers :
           /\ (Returns(w, "apply_change") \/ Returns(w, "try_ok")) =>
                  /\ ev'.arg \in GivenMsg(w)
                  /\ ev'.msg = NoMsg
                  /\ log' = Append(log, ev'.arg)
                  /\ \A r \in Readers : Live(r) => Pending(r)' = Append(Pending(r), ev'.arg)
           /\ Returns(w, "try_err") =>
                  /\ ev'.arg \in GivenMsg(w)
                  /\ ev'.msg = ev'.arg
                  /\ log' = log
    /\ log' /= log => ev'.op \in {"apply_change", "try_ok"}

C7_DeliveredOrReturned == [][C7_PublishStep]_vars

C7_Witness ==
    \E w \in Writers :
        /\ ev.who = w /\ ev.op = "apply_change" /\ ev.parked
        /\ Len(log) = Cap + 1 /\ log[Len(log)] = ev.arg
        /\ \E r \in Readers : Live(r) /\ Len(Pending(r)) = Cap

\* C8, as claimed: no call of try_apply_change or add_reader ever waits behind
\* a writer that is parked in apply_change on a full channel.
C8_OnlyApplyChangeWaits ==
    \A w \in Writers :
        (wpc[w] = "lock" /\ wop[w].kind \in {"try", "add"}) =>
            ~(\E v \in Writers : mutex = v /\ wpc[v] = "bcast" /\ Full)

\* C10: update_limited(limit) applies min(limit, p) messages, the oldest
\* pending ones in sequence order, returns that count and leaves the rest
\* pending; it stops short of the limit only when nothing is pending, and with
\* no publish during the call the count is min(limit, pending at the call).
C10_LimitedStep ==
    \A r \in Readers : Returns(r, "limited") =>
        /\ ev'.n <= ev'.lim
        /\ ev'.n = rcount[r] + (Len(applied'[r]) - Len(applied[r]))
        /\ ev'.n < ev'.lim => head'[r] = tail'
        /\ ~rconc[r] => ev'.n = Min(ev'.lim, PendingAtCall(r))
        /\ \A i \in 1 .. Len(applied'[r]) : applied'[r][i] = regAt[r].rx + i
        /\ Len(Pending(r)') = Lag(r)'

C10_UpdateLimited == [][C10_LimitedStep]_vars

C10_Witness ==
    \E r \in Readers :
        /\ ev.who = r /\ ev.op = "limited" /\ ev.lim = 1 /\ ev.n = 1
        /\ Len(Pending(r)) = 1 /\ Len(applied[r]) = 1

\* C9, as claimed: with a registered reader that keeps draining (r1), a
\* parked apply_change eventually completes.
C9_OneDrainingReaderSuffices ==
    \A w \in Writers :
        (wpc[w] = "bcast" /\ Live("r1")) ~> (wpc[w] /= "bcast" \/ ~Live("r1"))

\* C9, amended: a parked apply_change eventually completes unless a registered
\* reader that does not drain (r2) is a full buffer behind; the reader that
\* keeps draining (r1) never holds it up for ever.
C9_CompletesUnlessAReaderStaysBehind ==
    \A w \in Writers :
        (wpc[w] = "bcast") ~> (wpc[w] /= "bcast" \/ (Live("r2") /\ Lag("r2") >= Cap))

C9_Witness ==
    \E w \in Writers :
        /\ ev.who = w /\ ev.op = "apply_change" /\ ev.parked
        /\ Live("r1") /\ Len(applied["r1"]) >= 1 /\ rst["r2"] = "unreg"
        /\ Len(log) = Cap + 1 /\ regAt["r1"].rx = 0

\* C11: with no publish in between, once the limits of a reader's
\* update_limited calls add up to at least the number of messages that were
\* pending, the reader is where a single update() would have left it: nothing
\* pending, and the value folded over every message broadcast so far.
C11_LimitedCallsAddUpToUpdate ==
    \A r \in Readers : (Idle(r) /\ need[r] = 0) =>
        /\ head[r] = tail
        /\ Pending(r) = << >>
        /\ data[r] = FoldMessages(init0[r], SinceRegistered(r, log))

C11_Witness ==
    \E r \in Readers :
        /\ Idle(r) /\ need[r] = 0 /\ ev.who = r /\ ev.op = "limited"
        /\ ev.lim = 1 /\ ev.n = 1 /\ Len(applied[r]) = 2
        /\ regAt[r].rx = 0 /\ Len(log) = 2 /\ log[2] = Pop

\* the numbers pushed by a sequence of messages
Payloads(lg) == [i \in 1 .. Len(lg) |-> lg[i].x]

\* the thread that pushed number x
TagOf(x) == x \div 10

\* C12, the channel: every successful try_apply_change appends its message
\* once, a failed one appends nothing, and the messages of one thread stand in
\* the order of that thread's calls.
C12_SequenceOfSuccesses ==
    /\ \A i, j \in 1 .. Len(log) : i < j => log[i] /= log[j]
    /\ \A i, j \in 1 .. Len(log) :
           (i < j /\ TagOf(log[i].x) = TagOf(log[j].x)) => log[i].x < log[j].x

C12_TryStep ==
    /\ \A w \in Writers :
           /\ Returns(w, "try_ok") => log' = Append(log, OwnMsg(w))
           /\ Returns(w, "try_err") => log' = log
    /\ \A r \in Readers : (Returns(r, "update") /\ regAt[r].rx = 0) =>
           data'[r] = init0[r] \o Payloads(log')

\* C12: after the writer threads' successful try_apply_change calls, the
\* update() of a reader registered beforehand leaves a value that holds each
\* message exactly once, in an interleaving that keeps each thread's order.
C12_ConcurrentTryPublishers == [](C12_SequenceOfSuccesses) /\ [][C12_TryStep]_vars

C12_Witness ==
    \E r \in Readers :
        /\ ev.who = r /\ ev.op = "update" /\ regAt[r].rx = 0
        /\ Len(log) = Cap /\ Len(data[r]) = Len(init0[r]) + Cap
        /\ \E i, j \in 1 .. Len(log) : TagOf(log[i].x) = 1 /\ TagOf(log[j].x) = 2
        /\ pubsLeft = MaxPub - Cap

\* C13, as claimed: a writer constructed with capacity zero is no channel at
\* all: no add_reader ever creates a reader on it and no publish is accepted.
C13_ZeroCapacityIsRejected ==
    len = NewLen(0) => (log = << >> /\ \A r \in Readers : rst[r] = "unreg")

\* C14, as claimed: the value get_mut_fresh / into_inner_fresh returns holds
\* every message broadcast before the call returned.
C14_ReturnStep ==
    \A r \in Readers :
        /\ Returns(r, "fresh") =>
               data'[r] = FoldMessages(init0[r], SinceRegistered(r, log'))
        /\ Returns(r, "into_fresh") =>
               ev'.val = FoldMessages(init0[r], SinceRegistered(r, log'))

C14_CaughtUpAtReturn == [][C14_ReturnStep]_vars

\* the value r had when the call it is in began, and the messages then pending
StaleAtCall(r) ==
    FoldMessages(init0[r], SubSeq(AppliedMsgs(r), 1, Len(applied[r]) - rpend0[r]))
PendingMsgsAtCall(r) ==
    SubSeq(AppliedMsgs(r), Len(applied[r]) - rpend0[r] + 1, Len(applied[r]))

\* what a fresh call hands back
FreshValue(r) == IF ev'.op = "fresh" THEN data'[r] ELSE ev'.val

\* C14, amended: when the update() inside get_mut_fresh / into_inner_fresh
\* ends, the value holds every message broadcast so far; it is not touched
\* until the call returns; the value returned holds consumed messages only,
\* and with no publish during the call it is the stale value with every
\* pending message applied in order, nothing is left pending, and it holds
\* every message broadcast before the return.
C14_FreshStep ==
    \A r \in Readers :
        /\ (rpc[r] \notin RetStates /\ rpc'[r] \in RetStates) =>
               /\ head'[r] = tail'
               /\ data'[r] = FoldMessages(init0[r], SinceRegistered(r, log'))
        /\ (rpc[r] \in RetStates /\ rpc'[r] \in RetStates) =>
               data'[r] = data[r] /\ head'[r] = head[r] /\ applied'[r] = applied[r]
        /\ (Returns(r, "fresh") \/ Returns(r, "into_fresh")) =>
               /\ FreshValue(r) = data[r]
               /\ FreshValue(r) = FoldMessages(init0[r], AppliedMsgs(r))
               /\ ~rconc[r] =>
                      /\ head[r] = tail
                      /\ FreshValue(r) = FoldMessages(init0[r], SinceRegistered(r, log'))
                      /\ FreshValue(r) = FoldMessages(StaleAtCall(r), PendingMsgsAtCall(r))

C14_CaughtUpAtLastPoll == [][C14_FreshStep]_vars

C14_Witness ==
    \E r \in Readers :
        /\ ev.who = r /\ ev.op = "fresh" /\ Live(r)
        /\ Len(applied[r]) >= 2 /\ Lag(r) = 1
        /\ data[r] /= FoldMessages(init0[r], SinceRegistered(r, log))

\* C15, as claimed: every reader call, once begun, returns, however the
\* writers go on publishing.
C15_EveryCallTerminates ==
    \A r \in Readers : (rpc[r] /= "idle") ~> (rpc[r] = "idle")

\* a reader call is never made to wait: it can begin whenever the reader is
\* idle and make its next pass whenever it is in its loop
C15_NeverWaits ==
    \A r \in Readers :
        /\ (Live(r) /\ rpc[r] \in Loops) => ENABLED NextPass(r)
        /\ Idle(r) =>
               /\ ENABLED Update(r) /\ ENABLED GetMutFresh(r) /\ ENABLED IntoInnerFresh(r)
               /\ \A limit \in Limits : ENABLED UpdateLimited(r, limit)

\* a call that finds nothing buffered returns at once, with zero consumed and
\* the value and the cursor as they were
C15_EmptyStep ==
    \A r \in Readers : (Idle(r) /\ head[r] = tail /\ (ev'.who = r \/ rpc'[r] /= rpc[r])) =>
        /\ rpc'[r] = "idle" /\ ev'.who = r /\ ev'.n = 0
        /\ ring' = ring
        /\ ev'.op \in {"update", "limited", "fresh", "stale"} =>
               data'[r] = data[r] /\ head'[r] = head[r]

\* C15, amended: no reader call ever waits; one that finds nothing buffered
\* returns at once with zero consumed and the value unchanged; update_limited
\* always returns; update, get_mut_fresh and into_inner_fresh return unless
\* the writers publish again and again while the call is in its loop.
C15_NeverBlocksEndsUnlessFed ==
    /\ [](C15_NeverWaits)
    /\ [][C15_EmptyStep]_vars
    /\ \A r \in Readers : (rpc[r] = "limited") ~> (rpc[r] = "idle")
    /\ \A r \in Readers :
           (rpc[r] /= "idle") ~> (rpc[r] = "idle" \/ ev.op \in {"apply_change", "try_ok"})

C15_Witness ==
    \E r \in Readers :
        /\ Live(r) /\ rpc[r] = "update" /\ rconc[r] /\ CanRecv(r)
        /\ rpend0[r] = Cap /\ Len(Pending(r)) = Cap

\* try_apply_change fails only for a reader that is still registered
C16_TryStep ==
    \A w \in Writers :
        Returns(w, "try_err") => \E r \in Readers : Live(r) /\ Lag(r) >= Cap

\* C16: a reader consumed by into_inner_stale / into_inner_fresh while it lags
\* stops counting: once r2 is gone a writer parked in apply_change completes
\* (r1, if registered, keeps draining), and try_apply_change fails only when a
\* reader that is still registered is a full buffer behind.
C16_GoneReaderStopsCounting ==
    /\ \A w \in Writers : (wpc[w] = "bcast" /\ rst["r2"] = "consumed") ~> (wpc[w] /= "bcast")
    /\ [][C16_TryStep]_vars

C16_Witness ==
    \E w \in Writers :
        /\ ev.who = w /\ ev.op = "apply_change" /\ ev.parked
        /\ rst["r1"] = "consumed" /\ rst["r2"] = "consumed"
        /\ ring[0].seq = 1 /\ ring[0].read = 0 /\ ring[0].max = 2
        /\ Len(log) = Cap + 1

NoReader == \A r \in Readers : ~Live(r)

\* C17: while no reader is registered no apply_change parks and no
\* try_apply_change returns Err, however many messages are published; every
\* publish appends its message to the one global sequence; and a reader added
\* afterwards starts with nothing pending and its initial value.
C17_NoReaderStep ==
    /\ NoReader =>
           \A w \in Writers :
               /\ wpc[w] /= "bcast" => wpc'[w] /= "bcast"
               /\ ~Returns(w, "try_err")
               /\ (Returns(w, "apply_change") \/ Returns(w, "try_ok")) =>
                      log' = Append(log, ev'.arg)
    /\ \A r \in Readers : (~Live(r) /\ Live(r)') =>
           /\ head'[r] = tail' /\ Pending(r)' = << >>
           /\ data'[r] = init0'[r] /\ applied'[r] = << >>

C17_NoReaderNoBackpressure == [][C17_NoReaderStep]_vars

C17_Witness ==
    /\ ev.op = "add_reader" /\ Live("r1") /\ rst["r2"] = "unreg"
    /\ Len(log) = Cap + 2 /\ regAt["r1"].call = Cap + 2
    /\ pubsLeft = MaxPub - (Cap + 2)
    /\ Pending("r1") = << >> /\ data["r1"] = init0["r1"]

\* C18: no message a registered reader has yet to read is overwritten: every
\* live reader is at most Cap messages behind, and the messages broadcast
\* since its registration that it has not consumed are all still in the ring
\* behind its cursor, in the order they were broadcast.
C18_UnreadNeverOverwritten ==
    \A r \in Readers : Live(r) =>
        /\ Lag(r) >= 0 /\ Lag(r) <= Cap
        /\ Len(Pending(r)) = Lag(r)
        /\ Pending(r) = SubSeq(log, Len(log) - Lag(r) + 1, Len(log))

C18_Witness ==
    /\ Live("r1") /\ Live("r2")
    /\ Lag("r1") = 0 /\ Len(applied["r1"]) = Cap + 2
    /\ Lag("r2") = Cap /\ Len(log) = Cap + 2
    /\ Pending("r2") = SubSeq(log, Len(log) - Cap + 1, Len(log))

\* C19, the store: the cursor, the ring and the pending messages stay as they
\* are; the passes: each applies the oldest pending message to the value as it
\* stands; the returns of update / get_mut_fresh: the value is the stored one
\* with every message that was not consumed before the store applied in order.
C19_Step ==
    \A r \in Readers :
        /\ (ev'.who = r /\ ev'.op = "set") =>
               /\ head'[r] = head[r] /\ tail' = tail /\ ring' = ring
               /\ Pending(r)' = Pending(r)
        /\ (Live(r) /\ head'[r] /= head[r] /\ Live(r)') =>
               /\ head'[r] = NextSeat(head[r])
               /\ data'[r] = TakeMessage(data[r], Pending(r)[1])
        /\ (Returns(r, "update") \/ Returns(r, "fresh")) =>
               data'[r] = FoldMessages(init0[r], SinceRegistered(r, log'))

\* C19: a value the caller stores through the mutable accessor leaves the
\* cursor alone, and a later update applies the pending messages, in order,
\* to the stored value.
C19_UpdateAppliesToStoredValue ==
    /\ [](\A r \in Readers : Live(r) => data[r] = FoldMessages(init0[r], AppliedMsgs(r)))
    /\ [][C19_Step]_vars

C19_Witness ==
    \E r \in Readers :
        /\ ev.who = r /\ ev.op = "update" /\ Live(r)
        /\ init0[r] = <<1, 2, 3>> /\ AppliedMsgs(r) = <<Pop>> /\ data[r] = <<1, 2>>

\* the step belongs to an operation of reader r
ActsOn(r) == Live(r) /\ (ev'.who = r \/ rpc'[r] /= rpc[r] \/ head'[r] /= head[r])

\* C20, the steps: an operation on one reader leaves the value, the cursor
\* and the pending messages of every other reader as they were.
C20_Step ==
    \A r, q \in Readers : (r /= q /\ ActsOn(r) /\ Live(q)) =>
        /\ data'[q] = data[q] /\ head'[q] = head[q]
        /\ Pending(q)' = Pending(q)
        /\ applied'[q] = applied[q]

\* C20, the states: for every live reader, the messages it has applied and
\* the messages pending for it are together the publishes that succeeded
\* since its registration.
C20_Conserved ==
    \A r \in Readers : Live(r) =>
        Len(applied[r]) + Len(Pending(r)) = Len(log) - regAt[r].rx

\* C20: per-reader conservation: applied plus pending is the number of
\* publishes that succeeded since the registration, in every state and for
\* every live reader, and an operation on one reader changes neither the
\* value nor the pending messages of any other reader.
C20_PerReaderConservation == [](C20_Conserved) /\ [][C20_Step]_vars

C20_Witness ==
    /\ ev.who = "r1" /\ ev.op = "update" /\ Live("r1") /\ Live("r2")
    /\ Len(log) = 3 /\ regAt["r1"].rx = 0 /\ Len(applied["r1"]) = 3
    /\ regAt["r2"].rx = 1 /\ Len(applied["r2"]) = 1 /\ Len(Pending("r2")) = 1

=============================================================================
